---- MODULE Spec2Model ----
(***************************************************************************)
(* Model of the discretized value-iteration solver of influencer-mdp       *)
(* (src/influencer-mdp/src/mdp.py, class ValueIterationMDP): the state     *)
(* list, the reward and transition functions, the sweep loop of            *)
(* run_value_iteration and the rollout loop of evaluate().                 *)
(*                                                                         *)
(* Conventions.                                                            *)
(*  - An action (item index) i of the model is the Python index i - 1;     *)
(*    NoAction (0) stands for Python's None.                               *)
(*  - Values (V, rewards, delta) are fixed-point numbers held in units of  *)
(*    epsilon = 0.01, i.e. the real value times EpsilonInv.  The item      *)
(*    catalogue uses engagement counts for which every multiplier of the   *)
(*    reward is exact; the discount rounds down to the unit.               *)
(*  - A state of the MDP is a tuple <<budget, step, flag>>.                *)
(***************************************************************************)
EXTENDS Integers, Sequences, FiniteSets, TLC

\* ---------------------------------------------------------------- bounds
MaxItems == 4       \* longest item sequence handed to the constructor
MaxHorizon == 2     \* largest horizon handed to the constructor
MaxCalls == 2       \* evaluate() calls made on one solver instance

\* ------------------------------------------------------ program constants
MaxBudget == 1000           \* max_budget, also the budget of init_state
GridStep == 10              \* step of range(0, max_budget + 1, 10)
EpsilonInv == 100           \* epsilon = 0.01 = 1 / EpsilonInv
GammaNum == 9               \* gamma = 0.9 = GammaNum / GammaDen
GammaDen == 10
IterationCap == 500         \* hard cap on the sweep count
WeightLikes == 1            \* engagement_weights
WeightComments == 2
WeightSaves == 3
DiversityBonus == 1000      \* diversity_first_selection_bonus
DiversityFactor == 3        \* base_score *= 3.0
StepAllowance == 200        \* steps_remaining * 200
SmallRemainder == 100       \* remaining_budget < 100
EarlyPenalty == 10000000    \* terminal_reward -= 10000000.0
TerminalBonus == 5000       \* terminal_reward += 5000.0
LeftoverThreshold == 100    \* budget > 100 at the horizon
LeftoverDen == 10           \* budget * 0.1 = budget / LeftoverDen
SortThreshold == 100        \* budget > 100 in _get_valid_actions

NoAction == 0

\* ------------------------------------------------------------ the inputs
\* One record per candidate; under = the item's race is in
\* underrepresented_groups.  Items carry no engagement_rate.
Item(c, l, cm, s, u) == [cost |-> c, likes |-> l, comments |-> cm, saves |-> s, under |-> u]

Catalogue ==
    << Item(1200, 500, 0, 10, FALSE),
       Item(994, 10, 0, 0, FALSE),
       Item(1000, 100, 0, 0, TRUE),
       Item(1000, 200, 0, 0, TRUE),
       Item(500, 400, 0, 0, FALSE),
       Item(500, 50, 0, 0, TRUE),
       Item(494, 100, 0, 0, FALSE),
       Item(510, 10, 0, 0, FALSE),
       Item(62, 30, 0, 0, FALSE),
       Item(64, 30, 0, 0, FALSE) >>

\* the item sequences handed to the constructor: the runs of at most
\* MaxItems consecutive catalogue entries, the empty sequence included
DataSets ==
    { SubSeq(Catalogue, w[1], w[2]) :
        w \in { x \in (1..Len(Catalogue)) \X (0..Len(Catalogue)) :
                   x[2] - x[1] + 1 \in 0..MaxItems } }

Horizons == (0 - 1)..MaxHorizon

\* --------------------------------------------------------------- helpers
Abs(x) == IF x < 0 THEN 0 - x ELSE x
Max(a, b) == IF a >= b THEN a ELSE b
Range(f) == { f[x] : x \in DOMAIN f }

VARIABLES
    data,           \* self.data: the item records, in order
    horizon,        \* self.horizon
    states,         \* self.states: the state list of _initialize_states
    V,              \* self.V, held as a list aligned with states:
                    \*   V[i] is the value of states[i]
    policy,         \* self.policy, aligned with states: policy[i] is the
                    \*   action of states[i], NoAction when it has no entry
    iteration,      \* the sweep counter of run_value_iteration
    delta,          \* delta of the last completed sweep
    pc,             \* "solving", "solved", "evaluating", "returned", "error"
    prev_V,         \* history: self.V at the start of the last sweep
    prev_policy,    \* history: self.policy at the start of the last sweep
    log,            \* history: per non-terminal state of the last sweep,
                    \*   in processing order, the list _get_valid_actions
                    \*   returned and the policy values it saw
    state,          \* evaluate(): the running (unsnapped) state
    selected,       \* evaluate(): selected
    steps,          \* evaluate(): steps, the selection trace
    total_reward,   \* evaluate(): total_evaluated_reward
    total_cost,     \* evaluate(): total_cost
    results,        \* the values returned by the evaluate() calls so far
    lookup          \* history: policy_lookup_state of the last iteration

solver == << data, horizon, states, V, policy, iteration, delta, prev_V, prev_policy, log >>
rollout == << state, selected, steps, total_reward, total_cost, lookup >>
vars == << solver, rollout, pc, results >>

\* the number of budget levels of the grid
Levels == MaxBudget \div GridStep + 1

\* membership of a state tuple in the state list
InStates(s, h) ==
    /\ s[1] \in 0..MaxBudget /\ s[1] % GridStep = 0
    /\ s[2] \in 0..h
    /\ s[3] = 0 \/ (s[3] = 1 /\ s[2] > 0)

\* the position of a member state in the state list
Idx(s) ==
    IF s[2] = 0 THEN s[1] \div GridStep + 1
    ELSE Levels + (s[2] - 1) * 2 * Levels + 2 * (s[1] \div GridStep) + s[3] + 1

\* ------------------------------------------------- _initialize_states
\* variant: both flags are listed at every step, step 0 included
StatesOfStepBothFlags(step) ==
    [ k \in 1..(2 * Levels) |->
        << ((k - 1) \div 2) * GridStep, step, (k - 1) % 2 >> ]

\* the states of one step, budgets ascending; flag 1 only when step > 0
StatesOfStep(step) ==
    IF step = 0
    THEN [ k \in 1..Levels |-> << (k - 1) * GridStep, 0, 0 >> ]
    ELSE [ k \in 1..(2 * Levels) |->
             << ((k - 1) \div 2) * GridStep, step, (k - 1) % 2 >> ]

RECURSIVE StatesFrom(_, _)
StatesFrom(step, h) ==
    IF step > h THEN << >> ELSE StatesOfStep(step) \o StatesFrom(step + 1, h)

InitializeStates(h) == StatesFrom(0, h)

\* ------------------------------------------------------------- snapping
\* variant: the raw budget is used as the key without snapping
SnapNone(raw) == raw

\* min(budget_levels, key=lambda x: abs(x - raw)) over the ascending grid:
\* the nearest grid value, the lower one on a tie.
Snap(raw) ==
    IF raw <= 0 THEN 0
    ELSE IF raw >= MaxBudget THEN MaxBudget
    ELSE LET lo == (raw \div GridStep) * GridStep
         IN  IF raw - lo <= (lo + GridStep) - raw THEN lo ELSE lo + GridStep

\* ------------------------------------------------ _get_valid_actions
RECURSIVE AffordableAnyCost(_, _, _, _)
\* variant: the cost of the item is not compared with the budget
AffordableAnyCost(i, s, used, d) ==
    IF i > Len(d) THEN << >>
    ELSE IF s[2] = 0 \/ i \notin used
         THEN << i >> \o AffordableAnyCost(i + 1, s, used, d)
         ELSE AffordableAnyCost(i + 1, s, used, d)

RECURSIVE AffordableAlwaysFiltered(_, _, _, _)
\* variant: the policy values exclude an item at step 0 as well
AffordableAlwaysFiltered(i, s, used, d) ==
    IF i > Len(d) THEN << >>
    ELSE IF d[i].cost <= s[1] /\ i \notin used
         THEN << i >> \o AffordableAlwaysFiltered(i + 1, s, used, d)
         ELSE AffordableAlwaysFiltered(i + 1, s, used, d)

RECURSIVE Affordable(_, _, _, _)
\* the loop over enumerate(self.data), ascending index;
\* used = the set of self.policy.values() at the time of the call
Affordable(i, s, used, d) ==
    IF i > Len(d) THEN << >>
    ELSE IF d[i].cost <= s[1] /\ (s[2] = 0 \/ i \notin used)
         THEN << i >> \o Affordable(i + 1, s, used, d)
         ELSE Affordable(i + 1, s, used, d)

RECURSIVE InsertDesc(_, _, _)
\* insert a after every element of the sorted list whose cost is >= its own
InsertDesc(sorted, a, d) ==
    IF sorted = << >> THEN << a >>
    ELSE IF d[Head(sorted)].cost >= d[a].cost
         THEN << Head(sorted) >> \o InsertDesc(Tail(sorted), a, d)
         ELSE << a >> \o sorted

RECURSIVE SortByCostDesc(_, _, _)
\* list.sort(key=cost, reverse=True): stable, descending cost
SortByCostDesc(acts, k, d) ==
    IF k = 0 THEN << >>
    ELSE InsertDesc(SortByCostDesc(acts, k - 1, d), acts[k], d)

GetValidActions(s, used, d) ==
    LET valid_actions == Affordable(1, s, used, d)
    IN  IF valid_actions # << >> /\ s[1] > SortThreshold
        THEN SortByCostDesc(valid_actions, Len(valid_actions), d)
        ELSE valid_actions

\* ------------------------------------------------------------- rewards
CalculateEngagement(inf) ==
    inf.likes * WeightLikes + inf.comments * WeightComments + inf.saves * WeightSaves

\* _get_reward, in units of epsilon
GetReward(s, a, d, h) ==
    LET inf == d[a]
        raw == CalculateEngagement(inf)
        base_score == IF s[3] = 0 /\ inf.under
                      THEN raw * DiversityFactor + DiversityBonus
                      ELSE raw
        remaining_budget == s[1] - inf.cost
        steps_remaining == h - s[2] - 1
    IN  IF steps_remaining > 0 /\ remaining_budget > steps_remaining * StepAllowance
        THEN (base_score * EpsilonInv * 5) \div 10
        ELSE IF remaining_budget < SmallRemainder /\ remaining_budget >= 0
        THEN (base_score * EpsilonInv * 12) \div 10
        ELSE IF remaining_budget = 0
        THEN (base_score * EpsilonInv * 15) \div 10
        ELSE base_score * EpsilonInv

\* ---------------------------------------------------------- transition
\* variant: the step index is not advanced
GetTransitionSameStep(s, a, d) ==
    << s[1] - d[a].cost, s[2], IF d[a].under THEN 1 ELSE s[3] >>

\* variant: the flag is overwritten by the chosen item's category
GetTransitionOverwrite(s, a, d) ==
    << s[1] - d[a].cost, s[2] + 1, IF d[a].under THEN 1 ELSE 0 >>

GetTransition(s, a, d) ==
    << s[1] - d[a].cost, s[2] + 1, IF d[a].under THEN 1 ELSE s[3] >>

\* ---------------------------------------------------- run_value_iteration
\* variant: the penalty for budget left over at the horizon is not charged
TerminalRewardNoLeftover(s, h) ==
    (IF s[2] < h THEN 0 - EarlyPenalty * EpsilonInv ELSE 0)
    + (IF s[3] = 1 THEN TerminalBonus * EpsilonInv ELSE 0)

\* the value given to a terminal state (step >= horizon or budget <= 0)
TerminalReward(s, h) ==
    (IF s[2] < h THEN 0 - EarlyPenalty * EpsilonInv ELSE 0)
    + (IF s[3] = 1 THEN TerminalBonus * EpsilonInv ELSE 0)
    - (IF s[2] >= h /\ s[1] > LeftoverThreshold
       THEN (s[1] * EpsilonInv) \div LeftoverDen ELSE 0)

\* self.gamma * v, rounded down to the unit
GammaTimes(v) ==
    GammaNum * (v \div GammaDen) + (GammaNum * (v % GammaDen)) \div GammaDen

\* self.V.get(s, 0)
VGet(s) == IF InStates(s, horizon) THEN V[Idx(s)] ELSE 0

\* next_state_lookup: the successor of s under a, its budget snapped
NextStateLookup(s, a, d) ==
    LET next_state_raw == GetTransition(s, a, d)
    IN  << Snap(next_state_raw[1]), next_state_raw[2], next_state_raw[3] >>

\* reward + gamma * V[snapped successor], read from the V of the sweep's start
CandidateValue(s, a) ==
    GetReward(s, a, data, horizon) + GammaTimes(VGet(NextStateLookup(s, a, data)))

\* variant: an equal value replaces the current best as well
ImprovesOrTies(value, best) == best.action = NoAction \/ value >= best.value

\* value > max_value, with max_value = -inf until a first action is seen
Improves(value, best) == best.action = NoAction \/ value > best.value

RECURSIVE ScanActions(_, _, _, _)
\* the loop over the valid actions of state s; best = [value, action]
ScanActions(acts, k, s, best) ==
    IF k > Len(acts) THEN best
    ELSE LET value == CandidateValue(s, acts[k])
         IN  ScanActions(acts, k + 1, s,
                 IF Improves(value, best)
                 THEN [value |-> value, action |-> acts[k]]
                 ELSE best)

\* variant: the horizon test is off by one
IsTerminalLate(s, h) == s[2] > h \/ s[1] <= 0

\* the test of a terminal state
IsTerminal(s, h) == s[2] >= h \/ s[1] <= 0

\* variant: delta is not updated
NewDeltaKeep(d, old, new) == d

\* delta = max(delta, abs(self.V[state] - max_value))
NewDelta(d, old, new) == Max(d, Abs(old - new))

\* the branch "best_action is not None": new_V, the policy and delta
Commit(s, acc, best) ==
    [acc EXCEPT !.new_V[Idx(s)] = best.value,
                !.policy[Idx(s)] = best.action,
                !.delta = NewDelta(acc.delta, V[Idx(s)], best.value)]

\* variant: the policy entry of the state is removed
AbsorbUnset(s, acc) == [acc EXCEPT !.policy[Idx(s)] = NoAction]

\* the branch "best_action is None": nothing is assigned
Absorb(s, acc) == acc

\* the body of "for state in self.states" for one state;
\* acc = [new_V, policy, delta, log]
ProcessState(s, acc) ==
    IF IsTerminal(s, horizon)
    THEN [acc EXCEPT !.new_V[Idx(s)] = TerminalReward(s, horizon)]
    ELSE LET used == Range(acc.policy) \ {NoAction}
             acts == GetValidActions(s, used, data)
             best == ScanActions(acts, 1, s, [value |-> 0, action |-> NoAction])
             after == IF best.action # NoAction THEN Commit(s, acc, best) ELSE Absorb(s, acc)
         IN  [after EXCEPT !.log = Append(acc.log, [s |-> s, acts |-> acts, used |-> used])]

RECURSIVE SweepRange(_, _, _)
\* "for state in self.states" over the positions lo..hi, in list order
\* (split in halves to keep the evaluation shallow)
SweepRange(lo, hi, acc) ==
    IF lo > hi THEN acc
    ELSE IF lo = hi THEN ProcessState(states[lo], acc)
    ELSE LET mid == (lo + hi) \div 2
             left == SweepRange(lo, mid, acc)
         IN  \* delta is never negative: the test only makes the first half
             \* be evaluated before the second half starts
             IF left.delta < 0 THEN left ELSE SweepRange(mid + 1, hi, left)

\* delta < self.epsilon, delta in units of epsilon
Converged(d) == d < 1

\* variant: the cap is tested one sweep late
CapReachedLate(it) == it > IterationCap + 1

\* iteration > 500
CapReached(it) == it > IterationCap

\* ------------------------------------------------------------------ Init
\* the constructor up to the entry of the while loop: the item records,
\* the state list, V = 0 everywhere, an empty policy
Init ==
    /\ data \in DataSets
    /\ horizon \in Horizons
    /\ states = InitializeStates(horizon)
    /\ V = [ i \in 1..Len(states) |-> 0 ]
    /\ policy = [ i \in 1..Len(states) |-> NoAction ]
    /\ iteration = 0
    /\ delta = 0
    /\ pc = "solving"
    /\ prev_V = V
    /\ prev_policy = policy
    /\ log = << >>
    /\ state = << MaxBudget, 0, 0 >>
    /\ selected = << >>
    /\ steps = << >>
    /\ total_reward = 0
    /\ total_cost = 0
    /\ results = << >>
    /\ lookup = << >>

\* one iteration of "while True" in run_value_iteration
RunSweep ==
    /\ pc = "solving"
    /\ \E r \in { SweepRange(1, Len(states),
                        [new_V |-> V, policy |-> policy, delta |-> 0, log |-> << >>]) } :
           /\ V' = r.new_V
           /\ policy' = r.policy
           /\ delta' = r.delta
           /\ log' = r.log
           /\ iteration' = iteration + 1
           /\ pc' = IF Converged(r.delta) \/ CapReached(iteration + 1)
                    THEN "solved" ELSE "solving"
    /\ prev_V' = V
    /\ prev_policy' = policy
    /\ UNCHANGED << data, horizon, states, rollout, results >>

\* ------------------------------------------------------------- evaluate
\* variant: evaluate() empties the policy map
EvaluateFrameClears ==
    /\ policy' = [ i \in DOMAIN policy |-> NoAction ]
    /\ UNCHANGED << data, horizon, states, V, iteration, delta, prev_V, prev_policy, log >>

\* what evaluate() leaves alone
EvaluateFrame == UNCHANGED solver

\* the entry of evaluate(): the locals before the loop
EvaluateBegin ==
    /\ pc \in {"solved", "returned"}
    /\ Len(results) < MaxCalls
    /\ state' = << MaxBudget, 0, 0 >>
    /\ selected' = << >>
    /\ steps' = << >>
    /\ total_reward' = 0
    /\ total_cost' = 0
    /\ lookup' = << >>
    /\ pc' = "evaluating"
    /\ EvaluateFrame
    /\ UNCHANGED results

\* self.policy.get(s)
PolicyGet(s) == IF InStates(s, horizon) THEN policy[Idx(s)] ELSE NoAction

\* the terminal conditions of the rollout loop
StopRollout(action, st, h) == action = NoAction \/ st[2] >= h \/ st[1] <= 0

\* one iteration of the rollout loop; the break returns the result
EvaluateStep ==
    /\ pc = "evaluating"
    /\ EvaluateFrame
    /\ IF states = << >>
       THEN \* min() of an empty budget_levels raises ValueError
            /\ pc' = "error"
            /\ UNCHANGED << rollout, results >>
       ELSE LET policy_lookup_state == << Snap(state[1]), state[2], state[3] >>
                action == PolicyGet(policy_lookup_state)
            IN  /\ lookup' = policy_lookup_state
                /\ IF StopRollout(action, state, horizon)
                   THEN /\ pc' = "returned"
                        /\ results' = Append(results,
                               [ total_engagement |-> total_reward,
                                 total_cost |-> total_cost,
                                 selected_influencers |-> steps ])
                        /\ UNCHANGED << state, selected, steps, total_reward, total_cost >>
                   ELSE LET inf == data[action]
                            current_step_reward == GetReward(state, action, data, horizon)
                        IN  /\ total_reward' = total_reward + current_step_reward
                            /\ total_cost' = total_cost + inf.cost
                            /\ steps' = Append(steps,
                                   [ step |-> Len(selected),
                                     action |-> action,
                                     cost |-> inf.cost,
                                     raw_engagement |-> CalculateEngagement(inf),
                                     reward_applied |-> current_step_reward,
                                     remaining_budget |-> state[1],
                                     under |-> inf.under,
                                     total_cost |-> total_cost + inf.cost ])
                            /\ selected' = Append(selected, action)
                            /\ state' = GetTransition(state, action, data)
                            /\ pc' = "evaluating"
                            /\ UNCHANGED results

Next == RunSweep \/ EvaluateBegin \/ EvaluateStep

Spec == Init /\ [][Next]_vars

TypeOK ==
    /\ pc \in {"solving", "solved", "evaluating", "returned", "error"}
    /\ iteration \in 0..(IterationCap + 1)
    /\ Len(results) <= MaxCalls

\* ======================================================================
\* Properties
\* ======================================================================

RECURSIVE CumulativeCost(_)
\* the sum of the costs of trace records 1..k
CumulativeCost(k) == IF k = 0 THEN 0 ELSE steps[k].cost + CumulativeCost(k - 1)

\* C1: budget feasibility.  Every record of the selection trace has a
\* running cumulative cost (its own cost plus the costs of all earlier
\* records) of at most the maximum budget 1000, for every item set with
\* non-negative costs, off-grid costs included.
C1_BudgetFeasible ==
    \A k \in 1..Len(steps) : CumulativeCost(k) <= MaxBudget

\* C2: horizon bound.  For a horizon H >= 0 the rollout makes at most H
\* selections (the trace, running or returned, is never longer than H, and
\* its length is the step counter of the running state), and an iteration
\* that finds the step counter at H stops the loop without selecting.
C2_HorizonBound ==
    /\ [](horizon >= 0 =>
            /\ Len(steps) = state[2]
            /\ Len(steps) <= horizon
            /\ \A c \in 1..Len(results) :
                   Len(results[c].selected_influencers) <= horizon)
    /\ [][(horizon >= 0 /\ pc = "evaluating" /\ state[2] >= horizon)
            => (pc' = "returned" /\ steps' = steps /\ state' = state)]_vars

\* a rollout that used the whole horizon
C2_Witness ==
    /\ pc = "returned"
    /\ horizon = MaxHorizon
    /\ Len(steps) = horizon
    /\ Len(results[Len(results)].selected_influencers) = horizon

\* C3: the diversity flag is monotone along a rollout.  Once a trace step
\* has selected an underrepresented item the running state carries flag 1
\* from then on; a rollout step never turns the flag from 1 to 0, and sets
\* it to 1 exactly when the chosen item is underrepresented or the flag
\* was already 1.
C3_DiversityMonotone ==
    /\ []((\E k \in 1..Len(steps) : steps[k].under) => state[3] = 1)
    /\ [][(pc = "evaluating" /\ steps' # steps)
            => /\ (state[3] = 1 => state'[3] = 1)
               /\ (state'[3] = 1 <=> (steps'[Len(steps')].under \/ state[3] = 1))]_vars

\* an underrepresented pick followed by a pick from another category
C3_Witness ==
    /\ Len(steps) >= 2
    /\ steps[1].under
    /\ ~steps[2].under
    /\ state[3] = 1

\* the constructor has returned
Constructed == pc # "solving"

EmptyResult == [ total_engagement |-> 0, total_cost |-> 0, selected_influencers |-> << >> ]

InvalidConfiguration == Len(data) = 0 \/ horizon <= 0

\* C4 as stated: an empty item set or a horizon <= 0 is rejected before
\* solving begins, so no sweep runs and the constructor never returns a
\* solver.
C4_RejectedBeforeSolving ==
    InvalidConfiguration => (iteration = 0 /\ ~Constructed)

\* C4 as amended: an empty item set or a horizon <= 0 is not rejected.  The
\* constructor runs exactly one sweep, which finds no action (delta = 0),
\* and returns normally with an empty policy and V holding the terminal
\* values; evaluate() then returns an empty trace with zero totals, and
\* fails only when horizon < 0 left the state list empty.
C4_NotRejected ==
    InvalidConfiguration =>
        /\ iteration <= 1
        /\ Constructed =>
              /\ iteration = 1
              /\ delta = 0
              /\ \A i \in DOMAIN policy : policy[i] = NoAction
              /\ \A i \in DOMAIN V :
                     V[i] = IF IsTerminal(states[i], horizon)
                            THEN TerminalReward(states[i], horizon) ELSE 0
        /\ pc = "error" => horizon < 0
        /\ \A c \in 1..Len(results) : results[c] = EmptyResult

\* evaluate() has returned on a solver built with horizon 0 over some items
C4_Witness ==
    /\ horizon = 0
    /\ Len(data) > 0
    /\ pc = "returned"
    /\ iteration = 1

\* C5: the solver terminates.  Every step of the loop raises the sweep
\* count by one and the count never passes 501, so the loop ends for every
\* item set and horizon; it goes on only while delta >= epsilon and the
\* count is at most 500, and once it has ended (on delta < epsilon or on
\* the cap) the constructor has returned normally, with the V and policy
\* of the last sweep left in place.
C5_SolverTerminates ==
    /\ [](/\ iteration <= IterationCap + 1
          /\ pc = "solving" =>
                (iteration <= IterationCap /\ (iteration > 0 => ~Converged(delta)))
          /\ Constructed =>
                (iteration >= 1 /\ (Converged(delta) \/ iteration = IterationCap + 1)))
    /\ [][pc = "solving" =>
            /\ iteration' = iteration + 1
            /\ pc' \in {"solving", "solved"}
            /\ pc' = "solved" <=> (Converged(delta') \/ iteration' > IterationCap)]_vars
    /\ [][Constructed => (Constructed' /\ V' = V /\ policy' = policy)]_vars

\* the cap ended the loop, and evaluate() replayed the policy left by it
C5_Witness ==
    /\ pc = "returned"
    /\ iteration = IterationCap + 1
    /\ ~Converged(delta)
    /\ Len(steps) > 0

AllTooExpensive == \A i \in 1..Len(data) : data[i].cost > MaxBudget

\* C6: when every item costs more than the maximum budget, no state has a
\* valid action in any sweep, the policy has no entry after any sweep, and
\* every evaluate() call returns an empty trace with reward 0 and cost 0.
C6_NothingAffordable ==
    AllTooExpensive =>
        /\ \A k \in 1..Len(log) : log[k].acts = << >>
        /\ \A i \in DOMAIN policy : policy[i] = NoAction
        /\ steps = << >> /\ total_reward = 0 /\ total_cost = 0
        /\ \A c \in 1..Len(results) : results[c] = EmptyResult

\* a solver over unaffordable items, with non-terminal states, has returned
\* from evaluate()
C6_Witness ==
    /\ Len(data) > 0
    /\ AllTooExpensive
    /\ horizon >= 1
    /\ Len(log) > 0
    /\ pc = "returned"

NonTerminalPositions == { i \in DOMAIN V : ~IsTerminal(states[i], horizon) }

Change(i) == Abs(V[i] - prev_V[i])

\* C8 as stated: when the loop has ended on delta < epsilon, no state,
\* terminal states included, changed its value by epsilon or more in the
\* last sweep.
C8_ConvergedOverAllStates ==
    (Constructed /\ Converged(delta)) => \A i \in DOMAIN V : Change(i) < 1

\* C8 as amended: delta is the maximum absolute change of V over the
\* non-terminal states only (terminal states are not counted).  When the
\* loop has ended on delta < epsilon, no non-terminal state changed its
\* value by epsilon or more in the last sweep.
C8_ConvergedOverNonTerminal ==
    /\ iteration >= 1 =>
          /\ \A i \in NonTerminalPositions : Change(i) <= delta
          /\ delta = 0 \/ \E i \in NonTerminalPositions : Change(i) = delta
    /\ (Constructed /\ Converged(delta)) =>
          \A i \in NonTerminalPositions : Change(i) < 1

\* the loop ended on delta < epsilon after sweeps that did change values,
\* and in the last sweep only terminal states could have moved
C8_Witness ==
    /\ Constructed
    /\ Converged(delta)
    /\ iteration >= 2
    /\ \E i \in DOMAIN policy : policy[i] # NoAction

\* the items whose cost does not exceed the budget of log entry e
Within(e) == { i \in 1..Len(data) : data[i].cost <= e.s[1] }

\* C9 as stated: at every state, step 0 included, an item is a valid action
\* exactly when its cost does not exceed the budget and it does not appear
\* among the chosen actions of the policy map.
C9_FilteredAtEveryStep ==
    \A k \in 1..Len(log) :
        Range(log[k].acts) = { i \in Within(log[k]) : i \notin log[k].used }

\* C9 as amended: at a state of step index > 0 an item is a valid action
\* exactly when its cost does not exceed the budget and it does not appear
\* among the chosen actions of the policy map; at a state of step 0 it is
\* valid exactly when its cost does not exceed the budget, whatever the
\* policy map holds.  No valid action is listed twice.
C9_FilteredAfterStepZero ==
    \A k \in 1..Len(log) :
        /\ Range(log[k].acts) =
               { i \in Within(log[k]) : log[k].s[2] = 0 \/ i \notin log[k].used }
        /\ Len(log[k].acts) = Cardinality(Range(log[k].acts))

\* a step-0 state kept an item the policy already held, and a later-step
\* state lost one affordable item to the policy while keeping another
C9_Witness ==
    /\ \E k \in 1..Len(log) :
           log[k].s[2] = 0 /\ Range(log[k].acts) \cap log[k].used # {}
    /\ \E k \in 1..Len(log) :
           /\ log[k].s[2] > 0
           /\ Within(log[k]) \cap log[k].used # {}
           /\ log[k].acts # << >>

\* C10 as stated: a non-terminal state without a valid action in a sweep
\* keeps its value, and has no policy entry after the sweep.
C10_AbsorbedWithoutEntry ==
    \A k \in 1..Len(log) :
        log[k].acts = << >> =>
            /\ V[Idx(log[k].s)] = prev_V[Idx(log[k].s)]
            /\ policy[Idx(log[k].s)] = NoAction

\* C10 as amended: a non-terminal state without a valid action in a sweep
\* keeps its value, and its policy entry is left as it was before the
\* sweep: absent if no earlier sweep stored one (always so in the first
\* sweep), otherwise the action an earlier sweep stored.
C10_AbsorbedEntryKept ==
    \A k \in 1..Len(log) :
        log[k].acts = << >> =>
            /\ V[Idx(log[k].s)] = prev_V[Idx(log[k].s)]
            /\ policy[Idx(log[k].s)] = prev_policy[Idx(log[k].s)]
            /\ iteration = 1 => policy[Idx(log[k].s)] = NoAction

\* a state without a valid action in the last sweep still holds the action
\* of an earlier sweep
C10_Witness ==
    \E k \in 1..Len(log) :
        /\ log[k].acts = << >>
        /\ policy[Idx(log[k].s)] # NoAction

\* the diversity-adjusted base score of trace record k, from the record's
\* raw engagement and the categories of the earlier records
BaseScoreOfRecord(k) ==
    IF steps[k].under /\ ~(\E j \in 1..(k - 1) : steps[j].under)
    THEN steps[k].raw_engagement * DiversityFactor + DiversityBonus
    ELSE steps[k].raw_engagement

\* the over-budget penalty applies to trace record k
PenaltyOfRecord(k) ==
    LET r == steps[k].remaining_budget - steps[k].cost
        steps_remaining == horizon - steps[k].step - 1
    IN  steps_remaining > 0 /\ r > steps_remaining * StepAllowance

\* C11: budget-utilization shaping.  With r = budget - cost the projected
\* remaining budget of a selection, the reward applied is the base score
\* times 0.5 when the over-budget penalty applies, else times 1.5 when r is
\* exactly 0, else times 1.2 when r is strictly between 0 and 100, else the
\* base score itself.
C11_ExactExhaustionBonus ==
    \A k \in 1..Len(steps) :
        LET r == steps[k].remaining_budget - steps[k].cost
            base == BaseScoreOfRecord(k) * EpsilonInv
        IN  steps[k].reward_applied =
                IF PenaltyOfRecord(k) THEN (base * 5) \div 10
                ELSE IF r = 0 THEN (base * 15) \div 10
                ELSE IF r > 0 /\ r < SmallRemainder THEN (base * 12) \div 10
                ELSE base

\* the budget grid {0, 10, ..., 1000}
Grid == { k * GridStep : k \in 0..(MaxBudget \div GridStep) }

\* the triples of grid x {0..horizon} x {0, 1}
FullProduct == Grid \X (0..horizon) \X {0, 1}

\* C12 as stated: the state list holds every triple of the full product
\* grid x {0..horizon} x {0, 1} exactly once, 101 * (horizon + 1) * 2
\* members in all.
C12_FullCartesianProduct ==
    /\ Range(states) = FullProduct
    /\ Len(states) = Cardinality(FullProduct)
    /\ horizon >= 0 => Len(states) = Levels * (horizon + 1) * 2

\* C12 as amended: the state list holds, each exactly once, the triples of
\* the product whose flag is 0 or whose step is at least 1: flag 1 is left
\* out at step 0.  It has 101 * (2 * horizon + 1) members for a horizon
\* >= 0 and none for a negative horizon, and never changes after
\* construction.
C12_ProductWithoutFlagAtStepZero ==
    /\ [](/\ Range(states) = { t \in FullProduct : t[3] = 0 \/ t[2] > 0 }
          /\ Len(states) = Cardinality(Range(states))
          /\ Len(states) = IF horizon < 0 THEN 0 ELSE Levels * (2 * horizon + 1)
          /\ \A b \in Grid : << b, 0, 1 >> \notin Range(states))
    /\ [][states' = states]_vars

\* a solver over the largest horizon has swept its state list, which holds
\* flag-1 states at the later steps
C12_Witness ==
    /\ horizon = MaxHorizon
    /\ iteration >= 1
    /\ << MaxBudget, 1, 1 >> \in Range(states)
    /\ << MaxBudget, horizon, 1 >> \in Range(states)
    /\ Len(states) = Levels * (2 * horizon + 1)

\* the positions of the states at or past the horizon
HorizonPositions == { i \in DOMAIN states : states[i][2] >= horizon }

\* the positions of the states that ran out of budget before the horizon
ExhaustedPositions == { i \in DOMAIN states : states[i][2] < horizon /\ states[i][1] = 0 }

\* C13: terminal values are fixed.  After every completed sweep, the first
\* included, a state with step >= horizon holds +5000 if its flag is 1,
\* minus 0.1 * budget if its budget exceeds 100, and no early-exhaustion
\* penalty; a state with step < horizon and budget 0 holds -10000000, plus
\* 5000 if its flag is 1.  From the first sweep on no later sweep and no
\* evaluate() step changes the value of such a state.
C13_TerminalValuesFixed ==
    /\ [](iteration >= 1 =>
            /\ \A i \in HorizonPositions :
                   V[i] = (IF states[i][3] = 1 THEN TerminalBonus * EpsilonInv ELSE 0)
                          - (IF states[i][1] > LeftoverThreshold
                             THEN (states[i][1] * EpsilonInv) \div LeftoverDen ELSE 0)
            /\ \A i \in ExhaustedPositions :
                   V[i] = (IF states[i][3] = 1 THEN TerminalBonus * EpsilonInv ELSE 0)
                          - EarlyPenalty * EpsilonInv)
    /\ [][iteration >= 1 =>
            \A i \in HorizonPositions \cup ExhaustedPositions : V'[i] = V[i]]_vars

\* several sweeps have run over a state list that holds both kinds of
\* terminal state with either flag, while non-terminal values still moved
C13_Witness ==
    /\ iteration >= 2
    /\ horizon >= 2
    /\ ~Converged(delta)
    /\ \E i \in HorizonPositions : states[i][3] = 1 /\ states[i][1] > LeftoverThreshold
    /\ \E i \in ExhaustedPositions : states[i][3] = 1

\* C14: every state used as a lookup key is a member of the state list.
\* In every sweep the snapped successor used to read V, for every state
\* processed and every valid action of it, is in the list; in every rollout
\* iteration the snapped state used to read the policy is in the list,
\* also when the running budget is off the grid or negative.
C14_LookupKeysAreStates ==
    \A members \in { Range(states) } :
        /\ \A k \in 1..Len(log) : \A j \in 1..Len(log[k].acts) :
               NextStateLookup(log[k].s, log[k].acts[j], data) \in members
        /\ lookup # << >> => lookup \in members

\* a rollout looked the policy up with an off-grid budget, overspent, and
\* made its last lookup with a negative running budget
C14_Witness ==
    /\ pc = "returned"
    /\ state[1] < 0
    /\ lookup = << 0, state[2], state[3] >>
    /\ \E k \in 1..Len(steps) : steps[k].remaining_budget % GridStep # 0
    /\ \E k \in 1..Len(log) : log[k].acts # << >>

\* the candidate value of action a at state s in the last sweep: the
\* reward plus the discounted value its snapped successor had when the
\* sweep started
LastCandidateValue(s, a) ==
    GetReward(s, a, data, horizon)
    + GammaTimes(prev_V[Idx(NextStateLookup(s, a, data))])

\* action a comes before action b in the enumeration order of a state of
\* the given budget
EnumeratedBefore(a, b, budget) ==
    IF budget <= SortThreshold THEN a < b
    ELSE \/ data[a].cost > data[b].cost
         \/ data[a].cost = data[b].cost /\ a < b

\* the positions of the actions of log entry e that reach the largest
\* candidate value
MaxPositions(e) ==
    { j \in 1..Len(e.acts) :
        \A i \in 1..Len(e.acts) :
            LastCandidateValue(e.s, e.acts[i]) <= LastCandidateValue(e.s, e.acts[j]) }

\* C15: tie-breaking is stable first-max.  The valid actions of a state
\* are enumerated by ascending item index when its budget is at most 100
\* and by descending cost, equal costs by ascending index, when it is
\* above 100; the action stored in the policy, whose candidate value
\* becomes the value of the state, is the first in that order among the
\* actions that reach the largest candidate value.
C15_StableFirstMax ==
    \A k \in 1..Len(log) :
        log[k].acts # << >> =>
            /\ \A i, j \in 1..Len(log[k].acts) :
                   i < j => EnumeratedBefore(log[k].acts[i], log[k].acts[j], log[k].s[1])
            /\ \E j \in MaxPositions(log[k]) :
                   /\ \A i \in MaxPositions(log[k]) : j <= i
                   /\ policy[Idx(log[k].s)] = log[k].acts[j]
                   /\ V[Idx(log[k].s)] = LastCandidateValue(log[k].s, log[k].acts[j])

\* in one sweep a state of budget above 100 broke a tie in favour of the
\* costlier item of higher index, and a state of budget at most 100 broke
\* a tie in favour of the lower index
C15_Witness ==
    /\ \E k \in 1..Len(log) :
           /\ log[k].s[1] > SortThreshold
           /\ Cardinality(MaxPositions(log[k])) >= 2
           /\ \E j \in MaxPositions(log[k]) : log[k].acts[j] < policy[Idx(log[k].s)]
    /\ \E k \in 1..Len(log) :
           /\ log[k].s[1] <= SortThreshold
           /\ Cardinality(MaxPositions(log[k])) >= 2
           /\ \E j \in MaxPositions(log[k]) : log[k].acts[j] > policy[Idx(log[k].s)]

\* C16: no item is selected twice in one rollout.  The selection trace of
\* evaluate(), while it is built and as returned, holds each item index at
\* most once.
C16_NoRepeatedItem ==
    /\ \A i, j \in 1..Len(steps) : i < j => steps[i].action # steps[j].action
    /\ \A c \in 1..Len(results) :
           \A i, j \in 1..Len(results[c].selected_influencers) :
               i < j => results[c].selected_influencers[i].action
                            # results[c].selected_influencers[j].action

====
